---- MODULE Spec2Model ----
(***************************************************************************)
(* Model of the template class Requirements<T> (requirements.hpp): a store *)
(* of (dependent, requirement) pairs kept in a std::unordered_multimap.    *)
(*                                                                         *)
(* The multimap is modelled as the sequence of its elements in iteration   *)
(* order.  Elements with equal keys are adjacent (equal_range is a range); *)
(* where a new element lands in the iteration order is unspecified, so     *)
(* insert puts it at any position that keeps equal keys adjacent.          *)
(* A failed assertion is modelled as the operation reporting "fail" with   *)
(* the store as it is at the point of the assertion.  A recursion that     *)
(* re-enters a frame with the arguments of a frame still on the stack      *)
(* never returns; it is reported as "diverge".                             *)
(***************************************************************************)
EXTENDS Naturals, Integers, Sequences, FiniteSets, TLC

\* The objects of type T: the test's enum NiceGuys.
Objects == {"Kyle", "John", "Harry", "Jack", "Joe"}

\* The objects the operations of Spec are called with.
Inputs == Objects \ {"Harry"}

\* Bound on the number of pairs the store holds under Spec.
MaxPairs == 3

\* Bound on the number of pairs the store holds under SpecAdd.
MaxAddPairs == 5

\* Bound on the length of the collection handed to set and merge.
MaxBatch == 2

\* const T* prev == nullptr
nullptr == "nullptr"

\* m_requirements: the multimap, as the sequence of its elements in iteration order
\* m_reflexive:    the reflexive status, fixed at construction
\* added:          history: the pairs added by a successful call and not removed since
VARIABLES m_requirements, m_reflexive, added

vars == <<m_requirements, m_reflexive, added>>

AllPairs == Objects \X Objects

\* The pairs add is called with under SpecAdd: a ring of three objects, a
\* branch of two pairs that leaves it, their opposites and a self-pair.
AddPairs ==
    { <<"John", "Jack">>, <<"Jack", "Harry">>, <<"Harry", "John">>,
      <<"John", "Kyle">>, <<"Kyle", "Joe">>,
      <<"Jack", "John">>, <<"Kyle", "John">>, <<"Joe", "Kyle">>,
      <<"Joe", "Joe">> }

\* The pairs of the collections handed to set and merge: a chain of two
\* pairs, the pair that shortcuts it, the pair that closes it to a ring, and
\* a self-pair.
BatchPairs ==
    { <<"Kyle", "Jack">>, <<"Jack", "John">>, <<"Kyle", "John">>,
      <<"John", "Kyle">>, <<"Kyle", "Kyle">> }

\* The collections handed to set and merge, in their iteration order.
Batches == UNION {[1..n -> BatchPairs] : n \in 0..MaxBatch}

\* Longer collections for set and merge, with the third pair of the README
\* store req1.
MaxLongBatch == 3
LongPairs == BatchPairs \cup {<<"Joe", "John">>}
LongBatches == UNION {[1..n -> LongPairs] : n \in 0..MaxLongBatch}

----------------------------------------------------------------------------
(* Pure helpers on a multimap value m (a sequence of pairs).               *)

\* The set of distinct pairs held by m.
PairSet(m) == {m[i] : i \in DOMAIN m}

\* m.size()
size(m) == Len(m)

\* Number of elements of m equal to the pair p.
CountOf(m, p) == Cardinality({i \in DOMAIN m : m[i] = p})

\* exists(dependent, requirement) with recurse == false: scan of equal_range.
exists(m, dependent, requirement) ==
    \E i \in DOMAIN m : m[i][1] = dependent /\ m[i][2] = requirement

\* has_requirements: m.find(dependent) != m.end()
has_requirements(m, dependent) == \E i \in DOMAIN m : m[i][1] = dependent

\* has_dependents: full scan for an element whose value is requirement
has_dependents(m, requirement) == \E i \in DOMAIN m : m[i][2] = requirement

RECURSIVE SecondOf(_, _)
SecondOf(m, dependent) ==
    IF m = <<>> THEN <<>>
    ELSE IF Head(m)[1] = dependent
         THEN <<Head(m)[2]>> \o SecondOf(Tail(m), dependent)
         ELSE SecondOf(Tail(m), dependent)

\* requirements(dependent): the values of equal_range(dependent), in order.
requirements(m, dependent) == SecondOf(m, dependent)

RECURSIVE FirstOf(_, _)
FirstOf(m, requirement) ==
    IF m = <<>> THEN <<>>
    ELSE IF Head(m)[2] = requirement
         THEN <<Head(m)[1]>> \o FirstOf(Tail(m), requirement)
         ELSE FirstOf(Tail(m), requirement)

\* dependents(requirement): the keys of the elements whose value is requirement.
dependents(m, requirement) == FirstOf(m, requirement)

\* _requires(dependent, requirement, prev): depth-first search that skips
\* only the immediate parent.  stack holds the <<dependent, prev>> frames that
\* are active; requirement and the store are the same in all of them, so a
\* frame that is entered again while active recurses forever.
RECURSIVE _requires(_, _, _, _, _)
RECURSIVE requires_loop(_, _, _, _, _, _, _)
\* Faulty variant: the search looks at the direct pairs only.
_requires_direct(m, dependent, requirement, prev, stack) ==
    IF exists(m, dependent, requirement) THEN "true" ELSE "false"

\* Faulty variant: the loop gives up after the first requirement it descends into.
requires_loop_first(m, dependent, requirement, prev, stack, reqs, req) ==
    IF req > Len(reqs) THEN "false"
    ELSE IF prev = nullptr \/ reqs[req] # prev
         THEN _requires(m, reqs[req], requirement, dependent, stack)
         ELSE requires_loop(m, dependent, requirement, prev, stack, reqs, req + 1)

_requires(m, dependent, requirement, prev, stack) ==
    IF <<dependent, prev>> \in stack THEN "diverge"
    ELSE IF exists(m, dependent, requirement) THEN "true"
    ELSE IF has_requirements(m, dependent)
         THEN requires_loop(m, dependent, requirement, prev,
                            stack \cup {<<dependent, prev>>},
                            requirements(m, dependent), 1)
         ELSE "false"

requires_loop(m, dependent, requirement, prev, stack, reqs, req) ==
    IF req > Len(reqs) THEN "false"
    ELSE IF prev = nullptr \/ reqs[req] # prev
         THEN LET result == _requires(m, reqs[req], requirement, dependent, stack)
              IN  IF result = "false"
                  THEN requires_loop(m, dependent, requirement, prev, stack, reqs, req + 1)
                  ELSE result
         ELSE requires_loop(m, dependent, requirement, prev, stack, reqs, req + 1)

\* requires(dependent, requirement) / exists(dependent, requirement, true)
requires(m, dependent, requirement) ==
    _requires(m, dependent, requirement, nullptr, {})

\* Positions at which m.insert({dependent, requirement}) can place the new
\* element in the iteration order (equal keys stay adjacent).
InsertPositions(m, dependent) ==
    IF has_requirements(m, dependent)
    THEN {i \in 1..(Len(m) + 1) :
             \/ (i <= Len(m) /\ m[i][1] = dependent)
             \/ (i > 1 /\ m[i - 1][1] = dependent)}
    ELSE {i \in 1..(Len(m) + 1) :
             i = 1 \/ i = Len(m) + 1 \/ m[i - 1][1] # m[i][1]}

\* The multimap after the new element landed at position i.
InsertAt(m, i, p) == SubSeq(m, 1, i - 1) \o <<p>> \o SubSeq(m, i, Len(m))

\* The elements of m that are not in the set of pairs gone, in order.
RECURSIVE Erase(_, _)
Erase(m, gone) ==
    IF m = <<>> THEN <<>>
    ELSE IF Head(m) \in gone THEN Erase(Tail(m), gone)
         ELSE <<Head(m)>> \o Erase(Tail(m), gone)

\* What a call leaves: its status ("ok", "fail" for a failed assertion,
\* "diverge" for a recursion without end), the multimap, and the number of
\* elements it inserted.
Outcome(status, store, n) == [status |-> status, store |-> store, n |-> n]

\* Faulty variant: the opposite requirement is never tested.
add_check_no_opposite(m, reflexive, dependent, requirement) ==
    IF dependent = requirement THEN "fail"
    ELSE LET fwd == requires(m, dependent, requirement)
         IN  IF fwd = "true" THEN "fail"
             ELSE IF fwd = "diverge" THEN "diverge"
             ELSE "ok"

\* Faulty variant: the (implicit) requirement is never tested.
add_check_no_implicit(m, reflexive, dependent, requirement) ==
    IF dependent = requirement THEN "fail"
    ELSE IF ~reflexive
         THEN LET bwd == requires(m, requirement, dependent)
              IN  IF bwd = "true" THEN "fail"
                  ELSE IF bwd = "diverge" THEN "diverge"
                  ELSE "ok"
         ELSE "ok"

\* Faulty variant: the object itself is accepted as its requirement.
add_check_no_self(m, reflexive, dependent, requirement) ==
    LET fwd == requires(m, dependent, requirement)
    IN  IF fwd = "true" THEN "fail"
        ELSE IF fwd = "diverge" THEN "diverge"
        ELSE IF ~reflexive /\ dependent # requirement
             THEN LET bwd == requires(m, requirement, dependent)
                  IN  IF bwd = "true" THEN "fail"
                      ELSE IF bwd = "diverge" THEN "diverge"
                      ELSE "ok"
             ELSE "ok"

\* Faulty variant: the opposite requirement is looked up without recursion.
add_check_direct_opposite(m, reflexive, dependent, requirement) ==
    IF dependent = requirement THEN "fail"
    ELSE LET fwd == requires(m, dependent, requirement)
         IN  IF fwd = "true" THEN "fail"
             ELSE IF fwd = "diverge" THEN "diverge"
             ELSE IF ~reflexive /\ exists(m, requirement, dependent) THEN "fail"
             ELSE "ok"

\* The assertions of add, in order: "ok" when all of them pass.
add_check(m, reflexive, dependent, requirement) ==
    IF dependent = requirement THEN "fail"
    ELSE LET fwd == requires(m, dependent, requirement)
         IN  IF fwd = "true" THEN "fail"
             ELSE IF fwd = "diverge" THEN "diverge"
             ELSE IF ~reflexive
                  THEN LET bwd == requires(m, requirement, dependent)
                       IN  IF bwd = "true" THEN "fail"
                           ELSE IF bwd = "diverge" THEN "diverge"
                           ELSE "ok"
                  ELSE "ok"

\* Faulty variant: the pair is inserted before the assertions are tested.
add_insert_first(m, reflexive, dependent, requirement) ==
    LET status == add_check(m, reflexive, dependent, requirement)
    IN  {Outcome(status, InsertAt(m, i, <<dependent, requirement>>), 1) :
            i \in InsertPositions(m, dependent)}

\* add(dependent, requirement): the possible outcomes.
add(m, reflexive, dependent, requirement) ==
    LET status == add_check(m, reflexive, dependent, requirement)
    IN  IF status = "ok"
        THEN {Outcome("ok", InsertAt(m, i, <<dependent, requirement>>), 1) :
                 i \in InsertPositions(m, dependent)}
        ELSE {Outcome(status, m, 0)}

\* Faulty variant: remove erases the whole equal_range(dependent).
remove_range(m, dependent, requirement) ==
    Outcome(IF exists(m, dependent, requirement) THEN "ok" ELSE "fail",
            IF exists(m, dependent, requirement)
            THEN Erase(m, {dependent} \X Objects) ELSE m, 0)

\* Faulty variant: remove accepts a pair that is only derivable by a chain.
remove_derivable(m, dependent, requirement) ==
    Outcome(IF requires(m, dependent, requirement) = "true" THEN "ok" ELSE "fail",
            Erase(m, {<<dependent, requirement>>}), 0)

\* Faulty variant: the opposite pair is erased with the pair.
remove_both(m, dependent, requirement) ==
    Outcome(IF exists(m, dependent, requirement) THEN "ok" ELSE "fail",
            Erase(m, {<<dependent, requirement>>, <<requirement, dependent>>}), 0)

\* remove(dependent, requirement): erases the matching elements of
\* equal_range(dependent), then asserts that one was found.
remove(m, dependent, requirement) ==
    Outcome(IF exists(m, dependent, requirement) THEN "ok" ELSE "fail",
            Erase(m, {<<dependent, requirement>>}), 0)

\* Faulty variant: the pairs that have the object as requirement are erased
\* as well.
remove_dependent_all(m, dependent) ==
    IF has_requirements(m, dependent)
    THEN Outcome("ok", Erase(m, ({dependent} \X Objects) \cup (Objects \X {dependent})), 0)
    ELSE Outcome("fail", m, 0)

\* remove_dependent(dependent): asserts that equal_range(dependent) is not
\* empty, then erases it.
remove_dependent(m, dependent) ==
    IF has_requirements(m, dependent)
    THEN Outcome("ok", Erase(m, {dependent} \X Objects), 0)
    ELSE Outcome("fail", m, 0)

\* Faulty variant: the assertion on the number of removed pairs is missing.
remove_requirement_quiet(m, requirement) ==
    Outcome("ok", Erase(m, Objects \X {requirement}), 0)

\* remove_requirement(requirement): erases every element whose value is
\* requirement, then asserts that one was found.
remove_requirement(m, requirement) ==
    Outcome(IF has_dependents(m, requirement) THEN "ok" ELSE "fail",
            Erase(m, Objects \X {requirement}), 0)

\* Faulty variant: remove_dependent and remove_requirement are called without
\* the tests has_requirements and has_dependents.
remove_all_unguarded(m, object) ==
    LET o1 == remove_dependent(m, object)
        o2 == remove_requirement(o1.store, object)
    IN  Outcome(IF o1.status = "ok" /\ o2.status = "ok" THEN "ok" ELSE "fail",
                o2.store, 0)

\* remove_all(object)
remove_all(m, object) ==
    LET m1 == IF has_requirements(m, object)
              THEN remove_dependent(m, object).store ELSE m
        m2 == IF has_dependents(m1, object)
              THEN remove_requirement(m1, object).store ELSE m1
    IN  Outcome("ok", m2, 0)

\* clear()
clear(m) == Outcome("ok", <<>>, 0)

\* merge(requirements): add for each element from position itr on; the
\* first add that does not pass ends the call.
RECURSIVE merge_from(_, _, _, _)

\* Faulty variant: merge inserts the elements without the tests of add.
merge_from_insert(m, reflexive, batch, itr) ==
    IF itr > Len(batch) THEN {Outcome("ok", m, itr - 1)}
    ELSE UNION {merge_from(InsertAt(m, i, batch[itr]), reflexive, batch, itr + 1) :
                   i \in InsertPositions(m, batch[itr][1])}

\* Faulty variant: after a rejected element the following ones are still
\* added.
merge_from_go_on(m, reflexive, batch, itr) ==
    IF itr > Len(batch) THEN {Outcome("ok", m, itr - 1)}
    ELSE UNION {IF o.status = "ok"
                THEN merge_from(o.store, reflexive, batch, itr + 1)
                ELSE {Outcome(o.status, q.store, itr - 1) :
                         q \in merge_from(m, reflexive, batch, itr + 1)} :
                   o \in add(m, reflexive, batch[itr][1], batch[itr][2])}

\* merge(requirements), from the element at itr on.
merge_from(m, reflexive, batch, itr) ==
    IF itr > Len(batch) THEN {Outcome("ok", m, itr - 1)}
    ELSE UNION {IF o.status = "ok"
                THEN merge_from(o.store, reflexive, batch, itr + 1)
                ELSE {Outcome(o.status, m, itr - 1)} :
                   o \in add(m, reflexive, batch[itr][1], batch[itr][2])}

merge(m, reflexive, batch) == merge_from(m, reflexive, batch, 1)

\* Faulty variant: set does not clear the store first.
set_keep(m, reflexive, batch) == merge(m, reflexive, batch)

\* set(requirements): clear(), then merge(requirements).
set(m, reflexive, batch) == merge(clear(m).store, reflexive, batch)

\* get(): a copy of the multimap, element by element; as a bag of pairs.
get(m) == [p \in PairSet(m) |-> CountOf(m, p)]

----------------------------------------------------------------------------
(* Chain enumeration.  A call leaves its status and the vector of rows it  *)
(* returns.  all_requirements(dependent) keeps no argument but the object, *)
(* so a call for an object whose call is still active recurses forever.    *)

Chains(status, chains) == [status |-> status, chains |-> chains]

\* The rows built from the rows subs of a requirement (or dependent): each
\* sub whose second element is not object, with object put in front.
RECURSIVE Rows(_, _)
Rows(object, subs) ==
    IF subs = <<>> THEN <<>>
    ELSE IF Head(subs)[2] # object
         THEN <<(<<object>> \o Head(subs))>> \o Rows(object, Tail(subs))
         ELSE Rows(object, Tail(subs))

RECURSIVE all_requirements_rec(_, _, _)
RECURSIVE all_requirements_loop(_, _, _, _, _, _)

\* Faulty variant: the row [dependent, req] is pushed even when rows were
\* built from the rows of req (the test count == 0 is missing).
all_requirements_loop_count(m, dependent, stack, reqs, i, result) ==
    IF i > Len(reqs) THEN Chains("ok", result)
    ELSE LET req == reqs[i]
         IN  IF has_requirements(m, req)
             THEN LET sub == all_requirements_rec(m, req, stack)
                  IN  IF sub.status # "ok" THEN Chains(sub.status, <<>>)
                      ELSE all_requirements_loop(m, dependent, stack, reqs, i + 1,
                               result \o Rows(dependent, sub.chains)
                                      \o <<(<<dependent, req>>)>>)
             ELSE all_requirements_loop(m, dependent, stack, reqs, i + 1,
                      Append(result, <<dependent, req>>))

\* all_requirements(const T& dependent): the assertion, then the loop over
\* requirements(dependent).
all_requirements_rec(m, dependent, stack) ==
    IF dependent \in stack THEN Chains("diverge", <<>>)
    ELSE IF ~has_requirements(m, dependent) THEN Chains("fail", <<>>)
    ELSE all_requirements_loop(m, dependent, stack \cup {dependent},
                               requirements(m, dependent), 1, <<>>)

\* for (auto req : reqs), from the i-th requirement on; result holds the rows
\* pushed so far.
all_requirements_loop(m, dependent, stack, reqs, i, result) ==
    IF i > Len(reqs) THEN Chains("ok", result)
    ELSE LET req == reqs[i]
         IN  IF has_requirements(m, req)
             THEN LET sub == all_requirements_rec(m, req, stack)
                  IN  IF sub.status # "ok" THEN Chains(sub.status, <<>>)
                      ELSE LET rows == Rows(dependent, sub.chains)
                           IN  all_requirements_loop(m, dependent, stack, reqs, i + 1,
                                   result \o (IF rows = <<>>
                                              THEN <<(<<dependent, req>>)>>
                                              ELSE rows))
             ELSE all_requirements_loop(m, dependent, stack, reqs, i + 1,
                      Append(result, <<dependent, req>>))

\* all_requirements(dependent)
all_requirements(m, dependent) == all_requirements_rec(m, dependent, {})

RECURSIVE all_dependencies_rec(_, _, _)
RECURSIVE all_dependencies_loop(_, _, _, _, _, _)

\* all_dependencies(const T& requirement): the assertion, then the loop over
\* dependents(requirement).
all_dependencies_rec(m, requirement, stack) ==
    IF requirement \in stack THEN Chains("diverge", <<>>)
    ELSE IF ~has_dependents(m, requirement) THEN Chains("fail", <<>>)
    ELSE all_dependencies_loop(m, requirement, stack \cup {requirement},
                               dependents(m, requirement), 1, <<>>)

\* for (auto dep : deps), from the i-th dependent on.
all_dependencies_loop(m, requirement, stack, deps, i, result) ==
    IF i > Len(deps) THEN Chains("ok", result)
    ELSE LET dep == deps[i]
         IN  IF has_dependents(m, dep)
             THEN LET sub == all_dependencies_rec(m, dep, stack)
                  IN  IF sub.status # "ok" THEN Chains(sub.status, <<>>)
                      ELSE LET rows == Rows(requirement, sub.chains)
                           IN  all_dependencies_loop(m, requirement, stack, deps, i + 1,
                                   result \o (IF rows = <<>>
                                              THEN <<(<<requirement, dep>>)>>
                                              ELSE rows))
             ELSE all_dependencies_loop(m, requirement, stack, deps, i + 1,
                      Append(result, <<requirement, dep>>))

\* all_dependencies(requirement)
all_dependencies(m, requirement) == all_dependencies_rec(m, requirement, {})

\* A row of result starts with object.
StartsWith(result, object) == \E k \in DOMAIN result : result[k][1] = object

RECURSIVE all_requirements_scan(_, _, _, _)

\* Faulty variant: every dependent is used as the first element of a branch,
\* whatever without_duplicates says.
all_requirements_scan_every(m, without_duplicates, itr, result) ==
    IF itr > Len(m) THEN Chains("ok", result)
    ELSE IF ~StartsWith(result, m[itr][1])
         THEN LET deps == all_requirements(m, m[itr][1])
              IN  IF deps.status # "ok" THEN Chains(deps.status, <<>>)
                  ELSE all_requirements_scan(m, without_duplicates, itr + 1,
                                             result \o deps.chains)
         ELSE all_requirements_scan(m, without_duplicates, itr + 1, result)

\* all_requirements(bool without_duplicates): the loop over the multimap,
\* from the element at itr on.
all_requirements_scan(m, without_duplicates, itr, result) ==
    IF itr > Len(m) THEN Chains("ok", result)
    ELSE IF (~without_duplicates \/ ~has_dependents(m, m[itr][1]))
            /\ ~StartsWith(result, m[itr][1])
         THEN LET deps == all_requirements(m, m[itr][1])
              IN  IF deps.status # "ok" THEN Chains(deps.status, <<>>)
                  ELSE all_requirements_scan(m, without_duplicates, itr + 1,
                                             result \o deps.chains)
         ELSE all_requirements_scan(m, without_duplicates, itr + 1, result)

\* all_requirements(without_duplicates)
all_requirements_all(m, without_duplicates) ==
    all_requirements_scan(m, without_duplicates, 1, <<>>)

RECURSIVE all_dependencies_scan(_, _, _, _)

\* Faulty variant: the test of all_requirements(bool), has_dependents, is
\* kept where has_requirements belongs.
all_dependencies_scan_copied(m, without_duplicates, itr, result) ==
    IF itr > Len(m) THEN Chains("ok", result)
    ELSE IF (~without_duplicates \/ ~has_dependents(m, m[itr][2]))
            /\ ~StartsWith(result, m[itr][2])
         THEN LET reqs == all_dependencies(m, m[itr][2])
              IN  IF reqs.status # "ok" THEN Chains(reqs.status, <<>>)
                  ELSE all_dependencies_scan(m, without_duplicates, itr + 1,
                                             result \o reqs.chains)
         ELSE all_dependencies_scan(m, without_duplicates, itr + 1, result)

\* all_dependencies(bool without_duplicates): the loop over the multimap,
\* from the element at itr on.
all_dependencies_scan(m, without_duplicates, itr, result) ==
    IF itr > Len(m) THEN Chains("ok", result)
    ELSE IF (~without_duplicates \/ ~has_requirements(m, m[itr][2]))
            /\ ~StartsWith(result, m[itr][2])
         THEN LET reqs == all_dependencies(m, m[itr][2])
              IN  IF reqs.status # "ok" THEN Chains(reqs.status, <<>>)
                  ELSE all_dependencies_scan(m, without_duplicates, itr + 1,
                                             result \o reqs.chains)
         ELSE all_dependencies_scan(m, without_duplicates, itr + 1, result)

\* all_dependencies(without_duplicates)
all_dependencies_all(m, without_duplicates) ==
    all_dependencies_scan(m, without_duplicates, 1, <<>>)

----------------------------------------------------------------------------
(* Reachability over a set of pairs, independent of the search above.      *)

Successors(P, S) == {p[2] : p \in {q \in P : q[1] \in S}}

RECURSIVE Closure(_, _)
Closure(P, S) ==
    LET N == S \cup Successors(P, S)
    IN  IF N = S THEN S ELSE Closure(P, N)

\* r is reachable from d by following one or more pairs of P.
Reachable(P, d, r) == r \in Closure(P, Successors(P, {d}))

Range(s) == {s[i] : i \in DOMAIN s}

\* The sequences of S, each extended by one pair of P.
Step(P, S) ==
    {Append(x[1], x[2][2]) : x \in {y \in S \X P : y[2][1] = y[1][Len(y[1])]}}

\* The sequences of S and their extensions by up to n pairs of P.
RECURSIVE Paths(_, _, _)
Paths(P, S, n) ==
    IF n = 0 \/ S = {} THEN S ELSE S \cup Paths(P, Step(P, S), n - 1)

\* The maximal chains from d: the sequences d = v0, v1, ..., vk (k >= 1) of
\* pairs of P in which vk has no requirement.
MaximalChains(P, d) ==
    {s \in Paths(P, Step(P, {<<d>>}), Cardinality(P)) :
        \A p \in P : p[1] # s[Len(s)]}

----------------------------------------------------------------------------
(* The state machine.                                                      *)

Init ==
    /\ m_requirements = <<>>
    /\ m_reflexive \in BOOLEAN
    /\ added = {}

\* add(dependent, requirement); cap bounds the size of the store.
Add(dependent, requirement, cap) ==
    \E o \in add(m_requirements, m_reflexive, dependent, requirement) :
        /\ Len(o.store) <= cap
        /\ m_requirements' = o.store
        /\ added' = IF o.status = "ok"
                    THEN added \cup {<<dependent, requirement>>}
                    ELSE added
        /\ UNCHANGED m_reflexive

\* remove(dependent, requirement)
Remove(dependent, requirement) ==
    LET o == remove(m_requirements, dependent, requirement)
    IN  /\ m_requirements' = o.store
        /\ added' = IF o.status = "ok"
                    THEN added \ {<<dependent, requirement>>}
                    ELSE added
        /\ UNCHANGED m_reflexive

\* The history restarts from the content the other mutations leave.
Remaining(m) == PairSet(m)

\* remove_dependent(dependent)
RemoveDependent(dependent) ==
    LET o == remove_dependent(m_requirements, dependent)
    IN  /\ m_requirements' = o.store
        /\ added' = Remaining(o.store)
        /\ UNCHANGED m_reflexive

\* remove_requirement(requirement)
RemoveRequirement(requirement) ==
    LET o == remove_requirement(m_requirements, requirement)
    IN  /\ m_requirements' = o.store
        /\ added' = Remaining(o.store)
        /\ UNCHANGED m_reflexive

\* remove_all(object)
RemoveAll(object) ==
    LET o == remove_all(m_requirements, object)
    IN  /\ m_requirements' = o.store
        /\ added' = Remaining(o.store)
        /\ UNCHANGED m_reflexive

\* clear()
Clear ==
    /\ m_requirements' = clear(m_requirements).store
    /\ added' = {}
    /\ UNCHANGED m_reflexive

\* merge(requirements)
Merge(batch) ==
    \E o \in merge(m_requirements, m_reflexive, batch) :
        /\ Len(o.store) <= MaxPairs
        /\ m_requirements' = o.store
        /\ added' = added \cup Range(SubSeq(batch, 1, o.n))
        /\ UNCHANGED m_reflexive

\* set(requirements)
Set(batch) ==
    \E o \in set(m_requirements, m_reflexive, batch) :
        /\ Len(o.store) <= MaxPairs
        /\ m_requirements' = o.store
        /\ added' = Range(SubSeq(batch, 1, o.n))
        /\ UNCHANGED m_reflexive

Next ==
    \/ \E d \in Inputs, r \in Inputs : Add(d, r, MaxPairs)
    \/ \E d \in Inputs, r \in Inputs : Remove(d, r)
    \/ \E x \in Inputs : RemoveDependent(x)
    \/ \E x \in Inputs : RemoveRequirement(x)
    \/ \E x \in Inputs : RemoveAll(x)
    \/ Clear
    \/ \E batch \in Batches : Merge(batch)
    \/ \E batch \in Batches : Set(batch)

Spec == Init /\ [][Next]_vars

\* The store filled by add alone, called with the pairs of AddPairs.
NextAdd == \E p \in AddPairs : Add(p[1], p[2], MaxAddPairs)

SpecAdd == Init /\ [][NextAdd]_vars

\* The store filled by set and merge alone, called with the longer
\* collections.
NextBatch == \E batch \in LongBatches : Set(batch) \/ Merge(batch)
SpecBatch == Init /\ [][NextBatch]_vars

----------------------------------------------------------------------------
(* The claims.                                                             *)

Stored == PairSet(m_requirements)

\* The call failed and left the multimap m as it was.
Failed(m) == {Outcome("fail", m, 0)}

\* C1: on a non-reflexive store the stored pairs never contain a cycle of any
\* length: no object is reachable from itself (so no two objects are
\* reachable from each other).
C1_NoCycle ==
    ~m_reflexive => \A a \in Objects : ~Reachable(Stored, a, a)

\* C1 witness: a non-reflexive store holds a chain a -> b -> c, and the add
\* that would close the cycle, add(c, a), is refused.
C1_Witness ==
    /\ ~m_reflexive
    /\ \E a \in Objects, b \in Objects, c \in Objects :
          /\ exists(m_requirements, a, b) /\ exists(m_requirements, b, c)
          /\ add(m_requirements, m_reflexive, c, a) = Failed(m_requirements)

\* C2: in either reflexivity mode no pair is stored more than once, and
\* size() is the number of distinct stored pairs.
C2_Unique ==
    /\ \A p \in AllPairs : CountOf(m_requirements, p) <= 1
    /\ size(m_requirements) = Cardinality(Stored)

\* C2 witness: a reflexive store with two pairs or more, where adding a
\* stored pair once more is refused.
C2_Witness ==
    /\ m_reflexive
    /\ size(m_requirements) >= 2
    /\ \E p \in Stored :
          add(m_requirements, m_reflexive, p[1], p[2]) = Failed(m_requirements)

\* C3 as claimed: no stored pair (d, r) is also derivable from the other
\* stored pairs, by a chain from d to r.
C3_NoDerivablePair ==
    \A p \in Stored : ~Reachable(Stored \ {p}, p[1], p[2])

\* The pairs the store holds when merge reaches the k-th element of batch.
StoredBefore(batch, k) == Stored \cup {batch[j] : j \in 1..(k - 1)}

\* C3 amended: whenever add inserts a pair (d, r), called directly or by
\* merge and set, r is not reachable from d through the pairs stored at that
\* moment (merge called on the store as it is).
C3_NotDerivableWhenInserted ==
    \A batch \in Batches : \A o \in merge(m_requirements, m_reflexive, batch) :
        \A k \in 1..o.n :
            ~Reachable(StoredBefore(batch, k), batch[k][1], batch[k][2])

\* C3 witness: a stored pair (d, r) is derivable from pairs that were
\* inserted after it.
C3_Witness ==
    \E p \in Stored : Reachable(Stored \ {p}, p[1], p[2])

\* C4: in either mode add(a, a) fails and leaves the store unchanged, and no
\* stored pair has its dependent equal to its requirement.
C4_SelfAddFails ==
    /\ \A a \in Objects :
          add(m_requirements, m_reflexive, a, a) = Failed(m_requirements)
    /\ \A p \in Stored : p[1] # p[2]

\* C4 witness: a reflexive store holds a mutual pair a <-> b, and add(a, a)
\* is refused there.
C4_Witness ==
    /\ m_reflexive
    /\ \E a \in Objects, b \in Objects :
          /\ exists(m_requirements, a, b) /\ exists(m_requirements, b, a)
          /\ add(m_requirements, m_reflexive, a, a) = Failed(m_requirements)

\* C5: on a non-reflexive store add(d, r) fails and leaves the store
\* unchanged whenever d is reachable from r; and after a successful
\* add(d, r), exists(d, r) is true and add(r, d) fails.
C5_OppositeAddFails ==
    ~m_reflexive =>
        \A d \in Objects, r \in Objects :
            /\ Reachable(Stored, r, d) =>
                  add(m_requirements, m_reflexive, d, r) = Failed(m_requirements)
            /\ \A o \in add(m_requirements, m_reflexive, d, r) :
                  o.status = "ok" =>
                      /\ exists(o.store, d, r)
                      /\ add(o.store, m_reflexive, r, d) = Failed(o.store)

\* C5 witness: on a non-reflexive store d is reachable from r through a
\* chain only, and add(d, r) is refused.
C5_Witness ==
    /\ ~m_reflexive
    /\ \E d \in Objects, r \in Objects :
          /\ Reachable(Stored, r, d)
          /\ ~exists(m_requirements, r, d)
          /\ add(m_requirements, m_reflexive, d, r) = Failed(m_requirements)

\* C6: in either mode add(d, r) fails and leaves the store unchanged
\* whenever r is reachable from d, by the stored pair or by a chain.
C6_ImplicitAddFails ==
    \A d \in Objects, r \in Objects :
        Reachable(Stored, d, r) =>
            add(m_requirements, m_reflexive, d, r) = Failed(m_requirements)

\* C7: on a reflexive store where neither of two distinct objects a, b
\* requires the other, add(a, b) then add(b, a) both succeed, both pairs are
\* stored, the size grows by 2 and each requires the other.
C7_MutualAddSucceeds ==
    m_reflexive =>
        \A a \in Objects, b \in Objects :
            (a # b /\ ~Reachable(Stored, a, b) /\ ~Reachable(Stored, b, a)) =>
                \A o1 \in add(m_requirements, m_reflexive, a, b) :
                    /\ o1.status = "ok"
                    /\ \A o2 \in add(o1.store, m_reflexive, b, a) :
                          /\ o2.status = "ok"
                          /\ size(o2.store) = size(m_requirements) + 2
                          /\ exists(o2.store, a, b) /\ exists(o2.store, b, a)
                          /\ requires(o2.store, a, b) = "true"
                          /\ requires(o2.store, b, a) = "true"

\* C8: get() is exactly the set of the pairs added and not removed since,
\* each once, whatever the order of the calls; and a successful add inserts
\* its one pair and leaves every other element as it was.
C8_PlainSetOfPairs ==
    /\ get(m_requirements) = [p \in added |-> 1]
    /\ \A d \in Objects, r \in Objects :
          \A o \in add(m_requirements, m_reflexive, d, r) :
              o.status = "ok" =>
                  \E i \in DOMAIN o.store :
                      /\ o.store[i] = <<d, r>>
                      /\ SubSeq(o.store, 1, i - 1) \o SubSeq(o.store, i + 1, Len(o.store))
                            = m_requirements

\* C8 witness: two pairs or more of the same dependent are stored, they are
\* the pairs added, and one more can be added.
C8_Witness ==
    /\ \E a \in Objects, b \in Objects, c \in Objects :
          b # c /\ {<<a, b>>, <<a, c>>} \subseteq added
    /\ Stored = added
    /\ \E d \in Objects, r \in Objects :
          \E o \in add(m_requirements, m_reflexive, d, r) : o.status = "ok"

\* C9: a call requires(d, r) that returns yields true exactly when r is
\* reachable from d by one or more stored pairs; exists(d, r) is true only
\* for the stored pair itself.
C9_RequiresIsReachability ==
    \A d \in Objects, r \in Objects :
        /\ requires(m_requirements, d, r) # "diverge" =>
              (requires(m_requirements, d, r) = "true" <=> Reachable(Stored, d, r))
        /\ exists(m_requirements, d, r) <=> <<d, r>> \in Stored

\* C9 witness: a reflexive store holds a <-> b and b -> c; the search from a
\* skips the way back from b to a and finds c, which a does not require
\* directly.
C9_Witness ==
    /\ m_reflexive
    /\ \E a \in Objects, b \in Objects, c \in Objects :
          /\ a # c
          /\ exists(m_requirements, a, b) /\ exists(m_requirements, b, a)
          /\ exists(m_requirements, b, c)
          /\ requires(m_requirements, a, c) = "true"
          /\ ~exists(m_requirements, a, c)

\* C10: in either mode the transitive search requires(d, r), and therefore
\* add(d, r), terminates for all objects d, r.
C10_Terminates ==
    \A d \in Objects, r \in Objects :
        /\ requires(m_requirements, d, r) # "diverge"
        /\ \A o \in add(m_requirements, m_reflexive, d, r) : o.status # "diverge"

\* The objects that have a requirement and no dependent.
Roots(m) == {x \in Objects : has_requirements(m, x) /\ ~has_dependents(m, x)}

\* C11: on a non-reflexive store, for every object d with a direct
\* requirement, all_requirements(d) returns the maximal chains from d (each
\* consecutive pair stored, the last object without requirement), each of
\* them exactly once, and nothing else.
C11_AllMaximalChains ==
    ~m_reflexive =>
        \A d \in Objects :
            has_requirements(m_requirements, d) =>
                LET a == all_requirements(m_requirements, d)
                IN  /\ a.status = "ok"
                    /\ Range(a.chains) = MaximalChains(Stored, d)
                    /\ Len(a.chains) = Cardinality(MaximalChains(Stored, d))

\* C11 witness: a non-reflexive store holds a -> b, b -> c and b -> e;
\* all_requirements(a) returns the two chains through b, and the chain
\* a, b, c is one row.
C11_Witness ==
    /\ ~m_reflexive
    /\ \E a \in Objects, b \in Objects, c \in Objects, e \in Objects :
          /\ c # e
          /\ Stored = {<<a, b>>, <<b, c>>, <<b, e>>}
          /\ all_requirements(m_requirements, a).status = "ok"
          /\ Range(all_requirements(m_requirements, a).chains)
                = {<<a, b, c>>, <<a, b, e>>}
          /\ all_requirements(m_requirements, b).chains \in
                {<<(<<b, c>>), <<b, e>>>>, <<(<<b, e>>), <<b, c>>>>}

\* C12: on a non-reflexive store, all_requirements(true) starts a branch at
\* exactly the objects that have a requirement and no dependent, each once;
\* every row begins with such an object and ends with an object without
\* requirement, and no row is returned twice.
C12_RootChainsOnce ==
    ~m_reflexive =>
        LET a == all_requirements_all(m_requirements, TRUE)
        IN  /\ a.status = "ok"
            /\ {a.chains[k][1] : k \in DOMAIN a.chains} = Roots(m_requirements)
            /\ \A k \in DOMAIN a.chains :
                  /\ ~has_dependents(m_requirements, a.chains[k][1])
                  /\ ~has_requirements(m_requirements,
                                       a.chains[k][Len(a.chains[k])])
                  /\ \A j \in DOMAIN a.chains : a.chains[j] = a.chains[k] => j = k
            /\ Range(a.chains)
                  = UNION {MaximalChains(Stored, x) : x \in Roots(m_requirements)}

\* C12 witness: the store Kyle -> Jack, Jack -> John, Joe -> John yields the
\* two rows Kyle, Jack, John and Joe, John.
C12_Witness ==
    /\ ~m_reflexive
    /\ Stored = {<<"Kyle", "Jack">>, <<"Jack", "John">>, <<"Joe", "John">>}
    /\ Len(all_requirements_all(m_requirements, TRUE).chains) = 2
    /\ Range(all_requirements_all(m_requirements, TRUE).chains)
          = {<<"Kyle", "Jack", "John">>, <<"Joe", "John">>}

\* C13: remove(d, r) on a store that holds (d, r) deletes that pair and no
\* other: afterwards the pair does not exist, size() is one less, and every
\* other pair (the opposite pair and the pairs of a chain from d to r
\* included) is still stored.
C13_RemoveOnePair ==
    \A d \in Objects, r \in Objects :
        exists(m_requirements, d, r) =>
            LET o == remove(m_requirements, d, r)
            IN  /\ o.status = "ok"
                /\ ~exists(o.store, d, r)
                /\ size(o.store) = size(m_requirements) - 1
                /\ PairSet(o.store) = Stored \ {<<d, r>>}

\* C13 witness: a reflexive store holds a -> c with its opposite pair and
\* with the start a -> b of another way; remove(a, c) leaves the two others.
C13_Witness ==
    /\ m_reflexive
    /\ \E a \in Objects, b \in Objects, c \in Objects :
          /\ b # c
          /\ Stored = {<<a, c>>, <<c, a>>, <<a, b>>}
          /\ PairSet(remove(m_requirements, a, c).store) = {<<c, a>>, <<a, b>>}

\* C14: remove_dependent(x) deletes the pairs that have x as dependent and no
\* other; remove_requirement(x) deletes the pairs that have x as requirement
\* and no other.
C14_RemoveOneSide ==
    \A x \in Objects :
        LET od == remove_dependent(m_requirements, x)
            orq == remove_requirement(m_requirements, x)
            keptd == {p \in Stored : p[1] # x}
            keptr == {p \in Stored : p[2] # x}
        IN  /\ PairSet(od.store) = keptd
            /\ size(od.store) = Cardinality(keptd)
            /\ PairSet(orq.store) = keptr
            /\ size(orq.store) = Cardinality(keptr)

\* C14 witness: x is the dependent of one pair and the requirement of another;
\* each of the two operations leaves the pair of the other side.
C14_Witness ==
    \E a \in Objects, x \in Objects, b \in Objects :
        /\ {<<a, x>>, <<x, b>>} \subseteq Stored
        /\ remove_dependent(m_requirements, x).status = "ok"
        /\ <<a, x>> \in PairSet(remove_dependent(m_requirements, x).store)
        /\ remove_requirement(m_requirements, x).status = "ok"
        /\ <<x, b>> \in PairSet(remove_requirement(m_requirements, x).store)

\* C15: remove_all(x) never fails, whatever pairs x has; afterwards no stored
\* pair has x as dependent or as requirement, and every pair that does not
\* involve x is still stored.
C15_RemoveAllNeverFails ==
    \A x \in Objects :
        LET o == remove_all(m_requirements, x)
            kept == {p \in Stored : p[1] # x /\ p[2] # x}
        IN  /\ o.status = "ok"
            /\ PairSet(o.store) = kept
            /\ size(o.store) = Cardinality(kept)

\* C15 witness: a reflexive store holds the mutual pair of x and y and a pair
\* without x; remove_all(x) leaves that pair alone.  In another reachable
\* case x has no pair at all.
C15_Witness ==
    /\ m_reflexive
    /\ \E x \in Objects, y \in Objects, p \in Stored :
          /\ {<<x, y>>, <<y, x>>} \subseteq Stored
          /\ p[1] # x /\ p[2] # x
          /\ PairSet(remove_all(m_requirements, x).store) = {p}
    /\ \E z \in Objects :
          /\ ~has_requirements(m_requirements, z)
          /\ ~has_dependents(m_requirements, z)
          /\ remove_all(m_requirements, z).store = m_requirements

\* C19: remove(d, r) fails exactly when the pair (d, r) is not stored, even
\* if r is reachable from d by a chain; remove_dependent(x) fails exactly when
\* x has no direct requirement and remove_requirement(x) exactly when x has no
\* direct dependent; each failing call leaves the store as it was.
C19_RemovalsFailWhenNothingMatches ==
    /\ \A d \in Objects, r \in Objects :
          LET o == remove(m_requirements, d, r)
          IN  /\ o.status = "fail" <=> <<d, r>> \notin Stored
              /\ o.status \in {"ok", "fail"}
              /\ o.status = "fail" => o.store = m_requirements
    /\ \A x \in Objects :
          LET od == remove_dependent(m_requirements, x)
              orq == remove_requirement(m_requirements, x)
          IN  /\ od.status = "fail" <=> \A p \in Stored : p[1] # x
              /\ orq.status = "fail" <=> \A p \in Stored : p[2] # x
              /\ od.status \in {"ok", "fail"} /\ orq.status \in {"ok", "fail"}
              /\ od.status = "fail" => od.store = m_requirements
              /\ orq.status = "fail" => orq.store = m_requirements

\* C19 witness: the store holds the chain a -> b -> c without the pair
\* (a, c); remove(a, c) fails although a requires c, remove_dependent(c) and
\* remove_requirement(a) fail, and the store is unchanged by each.
C19_Witness ==
    \E a \in Objects, b \in Objects, c \in Objects :
        /\ Stored = {<<a, b>>, <<b, c>>}
        /\ requires(m_requirements, a, c) = "true"
        /\ remove(m_requirements, a, c) = Outcome("fail", m_requirements, 0)
        /\ remove_dependent(m_requirements, c) = Outcome("fail", m_requirements, 0)
        /\ remove_requirement(m_requirements, a) = Outcome("fail", m_requirements, 0)

\* The pairs of a collection.
PairsOf(batch) == Range(batch)

\* A collection without self-pair and without duplicate in which, for a
\* non-reflexive store, no pair has its opposite derivable.
SatisfiesInvariants(batch, reflexive) ==
    /\ \A k \in DOMAIN batch : batch[k][1] # batch[k][2]
    /\ \A j \in DOMAIN batch, k \in DOMAIN batch : batch[j] = batch[k] => j = k
    /\ ~reflexive =>
          \A k \in DOMAIN batch :
              ~Reachable(PairsOf(batch), batch[k][2], batch[k][1])

\* A collection in which, moreover, no pair is derivable from the others.
NoPairDerivable(batch) ==
    \A k \in DOMAIN batch :
        ~Reachable({batch[j] : j \in DOMAIN batch \ {k}}, batch[k][1], batch[k][2])

\* C16 as stated: set on any store, with a collection without self-pair,
\* without duplicate and (non-reflexive store) without pair whose opposite
\* is derivable, succeeds and leaves get() equal to exactly the collection,
\* whatever its iteration order.
C16_SetReplaces ==
    \A batch \in LongBatches :
        SatisfiesInvariants(batch, m_reflexive) =>
            \A o \in set(m_requirements, m_reflexive, batch) :
                /\ o.status = "ok"
                /\ get(o.store) = [p \in PairsOf(batch) |-> 1]

\* C16 amended: set leaves none of the prior content, whether it succeeds or
\* not; on a non-reflexive store it succeeds and leaves get() equal to
\* exactly the collection, whatever the iteration order, when moreover no
\* pair of the collection is derivable from the other pairs of it.
C16_SetReplacesUnderivable ==
    /\ \A batch \in LongBatches :
          \A o \in set(m_requirements, m_reflexive, batch) :
              /\ PairSet(o.store) = PairsOf(SubSeq(batch, 1, o.n))
              /\ size(o.store) = o.n
    /\ ~m_reflexive =>
          \A batch \in LongBatches :
              SatisfiesInvariants(batch, FALSE) /\ NoPairDerivable(batch) =>
                  \A o \in set(m_requirements, FALSE, batch) :
                      /\ o.status = "ok"
                      /\ get(o.store) = [p \in PairsOf(batch) |-> 1]

\* C16 witness: a non-reflexive store that is not empty, and a collection of
\* three pairs, none derivable from the others and none stored, that set
\* installs in place of the content.
C16_Witness ==
    /\ ~m_reflexive
    /\ Stored # {}
    /\ \E batch \in LongBatches :
          /\ Len(batch) = 3
          /\ SatisfiesInvariants(batch, FALSE) /\ NoPairDerivable(batch)
          /\ PairsOf(batch) \cap Stored = {}
          /\ \E o \in set(m_requirements, FALSE, batch) :
                o.status = "ok" /\ PairSet(o.store) = PairsOf(batch)

\* C17: merge adds the pairs in iteration order and stops at the first one
\* that add rejects: when it fails, the store holds the prior content and
\* exactly the pairs that precede the rejected one, each newly inserted, and
\* none of the following pairs has been inserted on that account.
C17_MergeStopsAtFirstRejected ==
    \A batch \in LongBatches :
        \A o \in merge(m_requirements, m_reflexive, batch) :
            /\ o.status = "ok" => o.n = Len(batch)
            /\ o.status # "ok" =>
                  /\ o.n < Len(batch)
                  /\ PairSet(o.store) = Stored \cup PairsOf(SubSeq(batch, 1, o.n))
                  /\ size(o.store) = size(m_requirements) + o.n
                  /\ \A q \in add(o.store, m_reflexive,
                                  batch[o.n + 1][1], batch[o.n + 1][2]) :
                        q.status # "ok"

\* C17 witness: on a store that is not empty, a merge of three pairs inserts
\* the first, is rejected on the second, and leaves out the third although
\* add would accept it.
C17_Witness ==
    /\ Stored # {}
    /\ \E batch \in LongBatches :
          /\ Len(batch) = 3
          /\ \E o \in merge(m_requirements, m_reflexive, batch) :
                /\ o.status = "fail" /\ o.n = 1
                /\ PairSet(o.store) = Stored \cup {batch[1]}
                /\ batch[1] \notin Stored
                /\ batch[3] \notin PairSet(o.store)
                /\ \E q \in add(o.store, m_reflexive, batch[3][1], batch[3][2]) :
                      q.status = "ok"

\* add, remove, remove_dependent and remove_requirement leave the store as it
\* was whenever they report an error.
FailingCallsKeepStore ==
    /\ \A d \in Objects, r \in Objects :
          /\ \A o \in add(m_requirements, m_reflexive, d, r) :
                o.status # "ok" => o.store = m_requirements
          /\ remove(m_requirements, d, r).status # "ok" =>
                remove(m_requirements, d, r).store = m_requirements
    /\ \A x \in Objects :
          /\ remove_dependent(m_requirements, x).status # "ok" =>
                remove_dependent(m_requirements, x).store = m_requirements
          /\ remove_requirement(m_requirements, x).status # "ok" =>
                remove_requirement(m_requirements, x).store = m_requirements

\* C18 as stated: whenever add, remove, remove_dependent, remove_requirement
\* or set reports an error, the stored pairs are those stored before the call
\* (all_requirements(x) and all_dependencies(x) are const and write nothing).
C18_AllOrNothing ==
    /\ FailingCallsKeepStore
    /\ \A batch \in LongBatches :
          \A o \in set(m_requirements, m_reflexive, batch) :
              o.status # "ok" => PairSet(o.store) = Stored

\* C18 amended: all-or-nothing holds for add, remove, remove_dependent and
\* remove_requirement; a set that reports an error leaves neither the prior
\* content nor the whole collection, but exactly the pairs of the collection
\* that precede the rejected one.
C18_AllOrNothingButSet ==
    /\ FailingCallsKeepStore
    /\ \A batch \in LongBatches :
          \A o \in set(m_requirements, m_reflexive, batch) :
              o.status # "ok" =>
                  /\ o.n < Len(batch)
                  /\ PairSet(o.store) = PairsOf(SubSeq(batch, 1, o.n))
                  /\ size(o.store) = o.n

\* C18 witness: on a store that is not empty an add is rejected and leaves
\* the store, and a set is rejected on its second pair and leaves its first
\* pair alone, which was not stored.
C18_Witness ==
    /\ Stored # {}
    /\ \E d \in Objects, r \in Objects :
          add(m_requirements, m_reflexive, d, r) = Failed(m_requirements)
    /\ \E batch \in LongBatches :
          /\ Len(batch) = 2
          /\ batch[1] \notin Stored
          /\ \E o \in set(m_requirements, m_reflexive, batch) :
                o.status = "fail" /\ o.store = <<batch[1]>>

\* C20: on a reflexive store that holds exactly the mutual pair (a, b),
\* (b, a), all_requirements(a) terminates and returns the single row a, b,
\* and so does all_dependencies(a).
C20_MutualPairSingleChain ==
    m_reflexive =>
        \A a \in Objects, b \in Objects :
            (a # b /\ Stored = {<<a, b>>, <<b, a>>}) =>
                /\ all_requirements(m_requirements, a)
                      = Chains("ok", <<(<<a, b>>)>>)
                /\ all_dependencies(m_requirements, a)
                      = Chains("ok", <<(<<a, b>>)>>)

\* The sequence s from its last element to its first.
Reverse(s) == [k \in 1..Len(s) |-> s[Len(s) + 1 - k]]

\* C21: on a non-reflexive store the rows of all_dependencies(true) are the
\* rows of all_requirements(true) reversed, as sets; each row of
\* all_dependencies(true) starts with an object without requirement and ends
\* with an object without dependent.
C21_DependenciesMirrorRequirements ==
    ~m_reflexive =>
        LET deps == all_dependencies_all(m_requirements, TRUE)
            reqs == all_requirements_all(m_requirements, TRUE)
        IN  /\ deps.status = "ok" /\ reqs.status = "ok"
            /\ Range(deps.chains) = {Reverse(c) : c \in Range(reqs.chains)}
            /\ \A k \in DOMAIN deps.chains :
                  /\ ~has_requirements(m_requirements, deps.chains[k][1])
                  /\ ~has_dependents(m_requirements,
                                     deps.chains[k][Len(deps.chains[k])])

\* C21 witness: the store Kyle -> Jack, Jack -> John, Joe -> John yields the
\* two rows John, Jack, Kyle and John, Joe, the reversed rows of
\* all_requirements(true).
C21_Witness ==
    /\ ~m_reflexive
    /\ Stored = {<<"Kyle", "Jack">>, <<"Jack", "John">>, <<"Joe", "John">>}
    /\ Len(all_dependencies_all(m_requirements, TRUE).chains) = 2
    /\ Range(all_dependencies_all(m_requirements, TRUE).chains)
          = {<<"John", "Jack", "Kyle">>, <<"John", "Joe">>}
    /\ Range(all_requirements_all(m_requirements, TRUE).chains)
          = {<<"Kyle", "Jack", "John">>, <<"Joe", "John">>}

\* The collection batch with its elements at i and i + 1 exchanged.
Swap(batch, i) ==
    [k \in 1..Len(batch) |->
        IF k = i THEN batch[i + 1] ELSE IF k = i + 1 THEN batch[i] ELSE batch[k]]

\* merge(batch), called on the store as it is, passes every add.
Succeeds(batch) ==
    \A o \in merge(m_requirements, m_reflexive, batch) : o.status = "ok"

\* merge(batch), called on the store as it is, reports an error.
Fails(batch) ==
    \A o \in merge(m_requirements, m_reflexive, batch) : o.status # "ok"

\* No object of P is reachable from itself.
NoCycle(P) == \A x \in Objects : ~Reachable(P, x, x)

\* No pair of batch is derivable from the stored pairs and the other pairs
\* of batch.
NoPairImplied(batch) ==
    \A k \in DOMAIN batch :
        ~Reachable(Stored \cup {batch[j] : j \in DOMAIN batch \ {k}},
                   batch[k][1], batch[k][2])

\* C22 as stated: for the store as it is and a fixed collection of pairs,
\* merge succeeds under every iteration order, leaving the same pairs, or
\* fails under every iteration order.  Every order is reached from every
\* other by exchanges of neighbours, so the statement is made for one
\* exchange in every collection.
C22_OrderIndependent ==
    \A batch \in LongBatches : \A i \in 1..(Len(batch) - 1) :
        \/ /\ Succeeds(batch) /\ Succeeds(Swap(batch, i))
           /\ \A o \in merge(m_requirements, m_reflexive, batch),
                 q \in merge(m_requirements, m_reflexive, Swap(batch, i)) :
                 PairSet(o.store) = PairSet(q.store)
        \/ Fails(batch) /\ Fails(Swap(batch, i))

\* C22 amended: a merge that succeeds leaves the stored pairs and the pairs
\* of the collection, each once, under whatever order it succeeded; on a
\* non-reflexive store, when no pair of the collection is derivable from the
\* stored pairs and the other pairs of the collection, whether merge succeeds
\* is decided by the set of pairs alone (it succeeds exactly when the stored
\* pairs and the collection together have no cycle), hence the same under
\* every iteration order.
C22_OrderIndependentWithoutImpliedPair ==
    /\ \A batch \in LongBatches :
          \A o \in merge(m_requirements, m_reflexive, batch) :
              o.status = "ok" =>
                  /\ PairSet(o.store) = Stored \cup PairsOf(batch)
                  /\ size(o.store) = size(m_requirements) + Len(batch)
    /\ ~m_reflexive =>
          \A batch \in LongBatches :
              NoPairImplied(batch) =>
                  /\ Succeeds(batch) \/ Fails(batch)
                  /\ Succeeds(batch) <=> NoCycle(Stored \cup PairsOf(batch))

\* C22 witness: on a non-reflexive store that is not empty, one collection of
\* two pairs without implied pair succeeds in both of its orders, and
\* another fails in both of its orders, blaming a different pair in each.
C22_Witness ==
    /\ ~m_reflexive
    /\ Stored # {}
    /\ \E batch \in LongBatches :
          /\ Len(batch) = 2 /\ NoPairImplied(batch)
          /\ Succeeds(batch) /\ Succeeds(Swap(batch, 1))
    /\ \E batch \in LongBatches :
          /\ Len(batch) = 2 /\ NoPairImplied(batch)
          /\ \E o \in merge(m_requirements, FALSE, batch) :
                o.status = "fail" /\ o.n = 1
          /\ \E q \in merge(m_requirements, FALSE, Swap(batch, 1)) :
                q.status = "fail" /\ q.n = 1

====
